---- MODULE Spec2Model ----
(***************************************************************************)
(* Day tracker (src/app.py, src/cli.py): the DynamoDB table of marked days, *)
(* the web process's module-level snapshot cache and its memoised calendar  *)
(* pages, the request handlers get_streak / get_marked_days / toggle_day    *)
(* run by worker threads, and the CLI's mark_day, which writes the same     *)
(* table from another process.                                              *)
(*                                                                          *)
(* Representation.                                                          *)
(*  - A Python dict is a function whose DOMAIN is its key set.              *)
(*  - A date string is a tuple of its fields: "2025-08-26" is               *)
(*    <<2025, 8, 26, 1>>, "2025-8-26" is <<2025, 8, 26, 0>> (last field:    *)
(*    zero-padded or not), "" is << >>.  strptime parses it, strftime       *)
(*    prints a date; the two are not inverse of each other on unpadded      *)
(*    strings.                                                              *)
(*  - A datetime.date is <<year, month, day>>.                              *)
(*  - A worker thread runs one handler at a time.  A handler is cut into    *)
(*    steps at the points where the interpreter can switch threads: calls   *)
(*    (datetime.now(), the DynamoDB I/O, invalidate_cache()) and the back   *)
(*    edge of the for loop that fills the cache.  Straight-line code        *)
(*    between two such points is one step.                                  *)
(***************************************************************************)
EXTENDS Integers, Sequences, FiniteSets, TLC

VARIABLES
    store,        \* the DynamoDB table: date string -> status
    cache,        \* _marked_days_cache (contents of the dict the global names)
    cache_ts,     \* _cache_timestamp
    clock,        \* datetime.now().timestamp()
    calls,        \* handler invocations and CLI runs started so far
    budget,       \* how many of them one behaviour holds
    pc,           \* per worker thread: position in its handler
    op,           \* per thread: the handler it runs
    req,          \* per thread: toggle_day's JSON body (a dict)
    today,        \* per thread: get_streak's local `today`
    now,          \* per thread: get_cached_marked_days' local current_time
    items,        \* per thread: response['Items'] of its scan, as a dict
    todo,         \* per thread: keys of items the for loop has not reached
    ret,          \* per thread: the dict get_cached_marked_days returned
    branch,       \* per thread: which return of get_cached_marked_days ran
    next_status,  \* per thread: toggle_day's local next_status
    op_failed,    \* per thread: toggle_day's store operation raised
    resp,         \* per thread: the handler's HTTP response
    cid,          \* per thread: number of the invocation it runs
    calendar_cache, \* get_calendar_data's lru_cache: today_key -> months_data
    hist,         \* history: <<table contents, clock value>> pairs that occurred
    scans,        \* history: every result a completed table.scan() returned
    cache_owner,  \* history: invocation that assigned the current cache dict
    foreign_fill, \* history: an invocation stored an item into a dict it did not assign
    ts_owner,     \* history: invocation that assigned cache_ts (0: never / invalidate)
    fresh_due,    \* history: a write + invalidate completed, no get started since
    expect_fresh  \* per thread: its get is the first started after a write + invalidate

vars == << store, cache, cache_ts, clock, calls, budget, pc, op, req, today, now,
           items, todo, ret, branch, next_status, op_failed, resp, cid,
           calendar_cache, hist, scans, cache_owner, foreign_fill, ts_owner,
           fresh_due, expect_fresh >>

-----------------------------------------------------------------------------
(* Bounds of the model *)

MaxCalls == 2      \* handler invocations plus CLI runs in one behaviour
ClockStart == 100  \* the clock's value at process start (any value >= the TTL)
TickStep == 30     \* seconds the clock advances in one Tick
MaxTicks == 1      \* Ticks in one behaviour
SnapshotDays == 5  \* days from START_DATE on that the derivation's tables mark
MaxToggles == 4    \* toggle_day requests in one behaviour of the toggle cycle

\* the worker threads of the web process
Threads == {1, 2}

-----------------------------------------------------------------------------
(* Program constants *)

\* _cache_ttl = 30  # seconds
_cache_ttl == 30

\* START_DATE = date(2025, 8, 26)
START_DATE == <<2025, 8, 26>>

EmptyDict == << >>

-----------------------------------------------------------------------------
(* Python dict operations *)

\* d[k] = v
DictPut(d, k, v) == [x \in (DOMAIN d) \cup {k} |-> IF x = k THEN v ELSE d[x]]

\* table.delete_item(Key=k): removing an absent key is not an error
DictDel(d, k) == [x \in (DOMAIN d) \ {k} |-> d[x]]

\* data.get(k, default)
DictGet(d, k, default) == IF k \in DOMAIN d THEN d[k] ELSE default

\* truthiness of a dict: `and _marked_days_cache`, `if not marked_days`
Truthy(d) == DOMAIN d # {}

-----------------------------------------------------------------------------
(* datetime.date arithmetic *)

IsLeap(y) == (y % 4 = 0) /\ ((y % 100 # 0) \/ (y % 400 = 0))

DaysInMonth(y, m) ==
    IF m = 2 THEN (IF IsLeap(y) THEN 29 ELSE 28)
    ELSE IF m \in {4, 6, 9, 11} THEN 30 ELSE 31

RECURSIVE DaysBeforeMonth(_, _)
DaysBeforeMonth(y, m) ==
    IF m <= 1 THEN 0 ELSE DaysBeforeMonth(y, m - 1) + DaysInMonth(y, m - 1)

DaysBeforeYear(y) ==
    (y - 1) * 365 + ((y - 1) \div 4) - ((y - 1) \div 100) + ((y - 1) \div 400)

\* date.toordinal(): what date comparison and subtraction are computed on
ToOrdinal(dt) == DaysBeforeYear(dt[1]) + DaysBeforeMonth(dt[1], dt[2]) + dt[3]

\* (a - b).days
DaysBetween(a, b) == ToOrdinal(a) - ToOrdinal(b)

\* dt + timedelta(days=1)
NextDay(dt) ==
    IF dt[3] < DaysInMonth(dt[1], dt[2]) THEN <<dt[1], dt[2], dt[3] + 1>>
    ELSE IF dt[2] < 12 THEN <<dt[1], dt[2] + 1, 1>>
    ELSE <<dt[1] + 1, 1, 1>>

\* dt - timedelta(days=1)
PrevDay(dt) ==
    IF dt[3] > 1 THEN <<dt[1], dt[2], dt[3] - 1>>
    ELSE IF dt[2] > 1 THEN <<dt[1], dt[2] - 1, DaysInMonth(dt[1], dt[2] - 1)>>
    ELSE <<dt[1] - 1, 12, 31>>

\* dt.strftime('%Y-%m-%d'): always zero-padded
strftime(dt) == <<dt[1], dt[2], dt[3], 1>>

\* datetime.strptime(s, '%Y-%m-%d') does not raise ValueError: four-digit
\* year, month 1..12 and a day of that month; padding is optional
strptime_ok(s) ==
    /\ Len(s) = 4
    /\ s[1] \in 1..9999
    /\ s[2] \in 1..12
    /\ s[3] \in 1..DaysInMonth(s[1], s[2])

\* the date strptime returns
strptime(s) == <<s[1], s[2], s[3]>>

-----------------------------------------------------------------------------
(* get_streak: the derivation over a snapshot (src/app.py 126-191) *)

\* marked_days[date_str] == status, for a date_str that may be absent
HasStatus(marked_days, date_str, status) ==
    date_str \in DOMAIN marked_days /\ marked_days[date_str] = status

\* the counting loop: `while current_date <= today` from current_date on
RECURSIVE CountDays(_, _, _, _)
CountDays(marked_days, current_date, td, status) ==
    IF ToOrdinal(current_date) > ToOrdinal(td) THEN 0
    ELSE (IF HasStatus(marked_days, strftime(current_date), status) THEN 1 ELSE 0)
         + CountDays(marked_days, NextDay(current_date), td, status)

\* None, for most_recent_success
NoDate == << >>

\* (the search walking past an unsuccessful day)
RECURSIVE MostRecentSuccessSkipsFailure(_, _)
MostRecentSuccessSkipsFailure(marked_days, current_date) ==
    IF ToOrdinal(current_date) < ToOrdinal(START_DATE) THEN NoDate
    ELSE IF HasStatus(marked_days, strftime(current_date), "successful")
         THEN current_date
    ELSE MostRecentSuccessSkipsFailure(marked_days, PrevDay(current_date))

\* the backward search `while current_date >= START_DATE`
RECURSIVE MostRecentSuccess(_, _)
MostRecentSuccess(marked_days, current_date) ==
    IF ToOrdinal(current_date) < ToOrdinal(START_DATE) THEN NoDate
    ELSE IF HasStatus(marked_days, strftime(current_date), "successful")
         THEN current_date
    ELSE IF HasStatus(marked_days, strftime(current_date), "unsuccessful")
         THEN NoDate
    ELSE MostRecentSuccess(marked_days, PrevDay(current_date))

\* (an unmarked day skipped instead of ending the run)
RECURSIVE StreakFromSkipsGap(_, _, _)
StreakFromSkipsGap(marked_days, streak_date, td) ==
    IF ~ (/\ ToOrdinal(streak_date) >= ToOrdinal(START_DATE)
          /\ ToOrdinal(streak_date) <= ToOrdinal(td))
    THEN 0
    ELSE IF HasStatus(marked_days, strftime(streak_date), "successful")
    THEN 1 + StreakFromSkipsGap(marked_days, PrevDay(streak_date), td)
    ELSE IF HasStatus(marked_days, strftime(streak_date), "unsuccessful")
    THEN 0
    ELSE StreakFromSkipsGap(marked_days, PrevDay(streak_date), td)

\* (the loop condition without `streak_date >= START_DATE`; the walk still
\* ends at the first day that is not successful)
RECURSIVE StreakFromNoEpoch(_, _, _)
StreakFromNoEpoch(marked_days, streak_date, td) ==
    IF ToOrdinal(streak_date) > ToOrdinal(td) THEN 0
    ELSE IF HasStatus(marked_days, strftime(streak_date), "successful")
    THEN 1 + StreakFromNoEpoch(marked_days, PrevDay(streak_date), td)
    ELSE 0

\* the counting loop `while streak_date >= START_DATE and streak_date <= today`
RECURSIVE StreakFrom(_, _, _)
StreakFrom(marked_days, streak_date, td) ==
    IF ~ (/\ ToOrdinal(streak_date) >= ToOrdinal(START_DATE)
          /\ ToOrdinal(streak_date) <= ToOrdinal(td))
    THEN 0
    ELSE IF strftime(streak_date) \in DOMAIN marked_days
    THEN IF marked_days[strftime(streak_date)] = "successful"
         THEN 1 + StreakFrom(marked_days, PrevDay(streak_date), td)
         ELSE IF marked_days[strftime(streak_date)] = "unsuccessful"
         THEN 0
         ELSE StreakFrom(marked_days, PrevDay(streak_date), td)
    ELSE 0

\* days_since_start = (today - START_DATE).days
days_since_start(td) == DaysBetween(td, START_DATE)

\* (an empty dict read as "every day since the start counts")
current_streak_naive(marked_days, td) ==
    IF days_since_start(td) >= 0
    THEN IF ~ Truthy(marked_days) THEN days_since_start(td)
         ELSE LET most_recent_success == MostRecentSuccess(marked_days, td)
              IN  IF most_recent_success # NoDate
                  THEN StreakFrom(marked_days, most_recent_success, td)
                  ELSE 0
    ELSE 0

\* (a streak counted only when today itself is successful)
current_streak_today_only(marked_days, td) ==
    IF days_since_start(td) >= 0
       /\ HasStatus(marked_days, strftime(td), "successful")
    THEN StreakFrom(marked_days, td, td)
    ELSE 0

\* current_streak as get_streak computes it from the dict it was given
current_streak(marked_days, td) ==
    IF days_since_start(td) >= 0
    THEN LET most_recent_success == MostRecentSuccess(marked_days, td)
         IN  IF most_recent_success # NoDate
             THEN StreakFrom(marked_days, most_recent_success, td)
             ELSE 0
    ELSE 0

\* (every record of the dict counted, whatever its date, as cli.py's
\* show_status does)
successful_days_all(marked_days, td) ==
    Cardinality({ k \in DOMAIN marked_days : marked_days[k] = "successful" })

successful_days(marked_days, td) ==
    IF days_since_start(td) >= 0
    THEN CountDays(marked_days, START_DATE, td, "successful") ELSE 0

unsuccessful_days(marked_days, td) ==
    IF days_since_start(td) >= 0
    THEN CountDays(marked_days, START_DATE, td, "unsuccessful") ELSE 0

\* round(a / b) to the nearest integer, a tie going to the even neighbour
\* (what Python's round does to a value that is exactly representable)
RoundHalfEven(a, b) ==
    LET q == a \div b
        r == a % b
    IN  IF 2 * r < b THEN q
        ELSE IF 2 * r > b THEN q + 1
        ELSE IF q % 2 = 0 THEN q ELSE q + 1

\* success_rate = round((successful_days / total_marked_days) * 100, 1) or
\* 0.0, in tenths of a percent (667 is 66.7), from the two counts
success_rate(n_successful, n_total) ==
    IF n_total > 0 THEN RoundHalfEven(1000 * n_successful, n_total) ELSE 0

-----------------------------------------------------------------------------
(* get_calendar_data (src/app.py 65-107), memoised by functools.lru_cache   *)

\* max(1, months_to_show)
Max1(n) == IF n > 1 THEN n ELSE 1

\* months_to_show, from the date that date.today() returns inside the
\* function
months_to_show(cal_today) ==
    Max1(IF cal_today[1] > START_DATE[1]
         THEN (cal_today[1] - START_DATE[1]) * 12
              + (cal_today[2] - START_DATE[2]) + 1
         ELSE cal_today[2] - START_DATE[2] + 1)

\* the dict appended for loop index i (month_name and the week grid are
\* functions of year and month and are left out)
MonthPage(i) ==
    LET year == START_DATE[1] + ((START_DATE[2] + i - 1) \div 12)
        month == ((START_DATE[2] + i - 1) % 12) + 1
    IN  [ year |-> year,
          month |-> month,
          start_date |-> <<year, month, 1>>,
          end_date |-> <<year, month, DaysInMonth(year, month)>> ]

\* months_data: `for i in range(months_to_show - 1, -1, -1)`
months_data(cal_today) ==
    [ j \in 1..months_to_show(cal_today) |->
          MonthPage(months_to_show(cal_today) - j) ]

\* the memo table after get_calendar_data(today_key) ran while date.today()
\* was cal_today: a key already present is served as stored (maxsize=32:
\* a behaviour asks for fewer than 32 keys, so no entry is evicted)
CalendarCacheAfter(memo, today_key, cal_today) ==
    IF today_key \in DOMAIN memo THEN memo
    ELSE DictPut(memo, today_key, months_data(cal_today))

\* what date.today() can return at line 74 in a request whose line 126 read
\* td: the same day, or the next one when midnight passed in between
CalendarTodays(td) == {td, NextDay(td)}

-----------------------------------------------------------------------------
(* Responses *)

\* the JSON get_streak returns
StreakResponse(marked_days, td, months) ==
    LET n_successful == successful_days(marked_days, td)
        n_unsuccessful == unsuccessful_days(marked_days, td)
    IN  [ code |-> 200,
          status |-> "-",
          current_streak |-> current_streak(marked_days, td),
          days_since_start |-> days_since_start(td),
          success_rate |-> success_rate(n_successful,
                                        n_successful + n_unsuccessful),
          successful_days |-> n_successful,
          unsuccessful_days |-> n_unsuccessful,
          total_marked_days |-> n_successful + n_unsuccessful,
          months_data |-> months,
          today |-> strftime(td) ]

\* a response that is not get_streak's carries none of its fields
OtherResponse(code, status) ==
    [ code |-> code,
      status |-> status,
      current_streak |-> 0,
      days_since_start |-> 0,
      success_rate |-> 0,
      successful_days |-> 0,
      unsuccessful_days |-> 0,
      total_marked_days |-> 0,
      months_data |-> << >>,
      today |-> << >> ]

\* the JSON get_marked_days returns is the dict itself (kept in ret)
MarkedDaysResponse == OtherResponse(200, "-")

\* toggle_day's responses
ToggleResponse(code, status) == OtherResponse(code, status)

NoResponse == OtherResponse(0, "-")

-----------------------------------------------------------------------------
(* Inputs *)

\* "2025-08-26" and "2025-08-27": the dates the requests of a behaviour name
K1 == <<2025, 8, 26, 1>>
K2 == <<2025, 8, 27, 1>>
StoreKeys == {K1, K2}

\* "2025-13-01": shaped like a date, no calendar date
BadDate == <<2025, 13, 1, 1>>

Statuses == {"successful", "unsuccessful"}

\* every table content over StoreKeys
Dicts == UNION { [S -> Statuses] : S \in SUBSET StoreKeys }

\* what earlier runs left in the table when the web process starts
InitialStores ==
    { EmptyDict,
      [k \in {K1} |-> "successful"],
      [k \in StoreKeys |-> IF k = K1 THEN "successful" ELSE "unsuccessful"] }

\* JSON bodies of POST /api/toggle-day: each key present or absent.
\* Well-formed dates carry every kind of current_status; the rejected bodies
\* are a missing date, an empty date and a date that is no calendar date.
ToggleStatuses == {"unmarked", "successful", "unsuccessful", "bogus"}
Requests ==
    { [date |-> K1, current_status |-> s] : s \in ToggleStatuses }
    \cup { [date |-> K1], [date |-> K2, current_status |-> "successful"] }
    \cup { [current_status |-> "unmarked"],
           [date |-> << >>, current_status |-> "successful"],
           [date |-> BadDate, current_status |-> "unsuccessful"],
           [date |-> BadDate] }

\* values of date.today() when a get_streak request arrives: the day before
\* START_DATE and two days after it
Todays == { <<2025, 8, 25>>, <<2025, 8, 28>> }

\* python cli.py mark <date> <status>
CliDates == {K2, BadDate}
CliStatuses == {"successful", "unsuccessful", "unset"}

\* dt + timedelta(days=n)
RECURSIVE AddDays(_, _)
AddDays(dt, n) ==
    IF n = 0 THEN dt
    ELSE IF n > 0 THEN AddDays(NextDay(dt), n - 1)
    ELSE AddDays(PrevDay(dt), n + 1)

\* "2025-8-27": accepted by strptime, printed by no strftime
UnpaddedKey == <<2025, 8, 27, 0>>

\* keys of the tables the derivation is run on: the day before START_DATE,
\* the first SnapshotDays days from START_DATE on, and the unpadded key
SnapshotKeys ==
    { strftime(AddDays(START_DATE, i)) : i \in (0 - 1)..(SnapshotDays - 1) }
    \cup {UnpaddedKey}

\* every table over those keys
Snapshots == UNION { [S -> Statuses] : S \in SUBSET SnapshotKeys }

\* values of date.today() the derivation is run for: a day of an earlier
\* year, two days before START_DATE, days inside and after the marked range,
\* the last day of the month
DeriveTodays ==
    { <<2024, 12, 31>>, <<2025, 8, 24>>, <<2025, 8, 27>>, <<2025, 8, 29>>,
      <<2025, 8, 30>>, <<2025, 8, 31>> }

-----------------------------------------------------------------------------
(* State after import of app.py: empty cache, timestamp 0, idle workers;    *)
(* the table holds whatever earlier runs left in it.                        *)

InitWith(n) ==
    /\ store \in InitialStores
    /\ budget = n
    /\ cache = EmptyDict
    /\ cache_ts = 0
    /\ clock = ClockStart
    /\ calls = 0
    /\ pc = [t \in Threads |-> "idle"]
    /\ op = [t \in Threads |-> "-"]
    /\ req = [t \in Threads |-> EmptyDict]
    /\ today = [t \in Threads |-> START_DATE]
    /\ now = [t \in Threads |-> 0]
    /\ items = [t \in Threads |-> EmptyDict]
    /\ todo = [t \in Threads |-> {}]
    /\ ret = [t \in Threads |-> EmptyDict]
    /\ branch = [t \in Threads |-> "-"]
    /\ next_status = [t \in Threads |-> "-"]
    /\ op_failed = [t \in Threads |-> FALSE]
    /\ resp = [t \in Threads |-> NoResponse]
    /\ cid = [t \in Threads |-> 0]
    /\ calendar_cache = EmptyDict
    /\ hist = {<<store, ClockStart>>}
    /\ scans = {}
    /\ cache_owner = 0
    /\ foreign_fill = FALSE
    /\ ts_owner = 0
    /\ fresh_due = FALSE
    /\ expect_fresh = [t \in Threads |-> FALSE]

Init == InitWith(MaxCalls)

cacheVars == << cache, cache_ts, cache_owner, foreign_fill, ts_owner >>
getLocals == << today, now, items, todo, ret, branch >>
toggleLocals == << req, next_status, op_failed >>

\* a worker is free to take the next request
Free(t) == pc[t] \in {"idle", "done"} /\ calls < budget

\* worker t picks up request o: its locals start afresh
Begin(t, o) ==
    /\ calls' = calls + 1
    /\ UNCHANGED budget
    /\ cid' = [cid EXCEPT ![t] = calls + 1]
    /\ op' = [op EXCEPT ![t] = o]
    /\ items' = [items EXCEPT ![t] = EmptyDict]
    /\ todo' = [todo EXCEPT ![t] = {}]
    /\ ret' = [ret EXCEPT ![t] = EmptyDict]
    /\ branch' = [branch EXCEPT ![t] = "-"]
    /\ op_failed' = [op_failed EXCEPT ![t] = FALSE]

-----------------------------------------------------------------------------
(* get_cached_marked_days (src/app.py 40-63), called by get_streak and      *)
(* get_marked_days                                                          *)

\* (comparison turned round)
CacheValidReversed(current_time, ts, c) ==
    /\ current_time - ts > _cache_ttl
    /\ Truthy(c)

\* `current_time - _cache_timestamp < _cache_ttl and _marked_days_cache`
CacheValid(current_time, ts, c) ==
    /\ current_time - ts < _cache_ttl
    /\ Truthy(c)

\* (the except branch handing back the global dict)
ScanFailureStale(c) == c

\* what the `except Exception` branch returns
ScanFailureResult(c) == EmptyDict

\* (the cache dropped when the scan fails)
ScanFailureCacheCleared(c) == EmptyDict

\* the global dict after the `except Exception` branch: the branch assigns
\* nothing, and the scan raised before `_marked_days_cache = {}`
ScanFailureCache(c) == c

\* get_cached_marked_days returns `value` by branch `kind`; the handler then
\* builds its response from that dict and its other locals die with the call
Return(t, kind, value) ==
    /\ ret' = [ret EXCEPT ![t] = value]
    /\ branch' = [branch EXCEPT ![t] = kind]
    /\ IF op[t] = "get_streak"
       THEN \E cal_today \in CalendarTodays(today[t]) :
            /\ calendar_cache' = CalendarCacheAfter(calendar_cache,
                                                    strftime(today[t]), cal_today)
            /\ resp' = [resp EXCEPT ![t] =
                            StreakResponse(value, today[t],
                                           calendar_cache'[strftime(today[t])])]
       ELSE /\ resp' = [resp EXCEPT ![t] = MarkedDaysResponse]
            /\ UNCHANGED calendar_cache
    /\ pc' = [pc EXCEPT ![t] = "done"]
    /\ today' = [today EXCEPT ![t] = START_DATE]
    /\ now' = [now EXCEPT ![t] = 0]
    /\ items' = [items EXCEPT ![t] = EmptyDict]
    /\ cid' = [cid EXCEPT ![t] = 0]

\* GET /api/streak: today = date.today(), then get_cached_marked_days reads
\* the clock
GetStreakStart(t, td) ==
    /\ Free(t)
    /\ Begin(t, "get_streak")
    /\ today' = [today EXCEPT ![t] = td]
    /\ now' = [now EXCEPT ![t] = clock]
    /\ pc' = [pc EXCEPT ![t] = "check"]
    /\ resp' = [resp EXCEPT ![t] = NoResponse]
    /\ req' = [req EXCEPT ![t] = EmptyDict]
    /\ next_status' = [next_status EXCEPT ![t] = "-"]
    /\ expect_fresh' = [expect_fresh EXCEPT ![t] = fresh_due]
    /\ fresh_due' = FALSE
    /\ UNCHANGED << store, hist, calendar_cache, clock, scans, cacheVars >>

\* GET /api/marked-days
GetMarkedDaysStart(t) ==
    /\ Free(t)
    /\ Begin(t, "get_marked_days")
    /\ today' = [today EXCEPT ![t] = START_DATE]
    /\ now' = [now EXCEPT ![t] = clock]
    /\ pc' = [pc EXCEPT ![t] = "check"]
    /\ resp' = [resp EXCEPT ![t] = NoResponse]
    /\ req' = [req EXCEPT ![t] = EmptyDict]
    /\ next_status' = [next_status EXCEPT ![t] = "-"]
    /\ expect_fresh' = [expect_fresh EXCEPT ![t] = fresh_due]
    /\ fresh_due' = FALSE
    /\ UNCHANGED << store, hist, calendar_cache, clock, scans, cacheVars >>

\* the validity test; a hit returns the global dict at once
GetCheck(t) ==
    /\ pc[t] = "check"
    /\ IF CacheValid(now[t], cache_ts, cache)
       THEN Return(t, "hit", cache)
       ELSE /\ pc' = [pc EXCEPT ![t] = "scan"]
            /\ UNCHANGED << ret, branch, resp, today, now, items, cid,
                            calendar_cache >>
    /\ UNCHANGED << store, hist, clock, calls, budget, op, req, todo, next_status, op_failed,
                    scans, cacheVars, fresh_due, expect_fresh >>

\* table.scan() answers
GetScan(t) ==
    /\ pc[t] = "scan"
    /\ items' = [items EXCEPT ![t] = store]
    /\ todo' = [todo EXCEPT ![t] = DOMAIN store]
    /\ scans' = scans \cup {store}
    /\ pc' = [pc EXCEPT ![t] = "fill"]
    /\ UNCHANGED << store, hist, calendar_cache, clock, calls, budget, op, req, today, now, ret, branch,
                    next_status, op_failed, resp, cid, cacheVars, fresh_due,
                    expect_fresh >>

\* table.scan() raises: the except branch prints and returns
GetScanFail(t) ==
    /\ pc[t] = "scan"
    /\ Return(t, "fallback", ScanFailureResult(cache))
    /\ cache' = ScanFailureCache(cache)
    /\ UNCHANGED << store, hist, clock, calls, budget, op, req, todo, next_status, op_failed,
                    scans, cache_ts, cache_owner, foreign_fill, ts_owner,
                    fresh_due, expect_fresh >>

\* where the loop stands after an iteration
AfterItem(t, k) == IF todo[t] \ {k} = {} THEN "stamp" ELSE "loop"

\* `_marked_days_cache = {}` and the first iteration of the for loop; with
\* no items the loop body never runs and the function stamps and returns
GetFill(t) ==
    /\ pc[t] = "fill"
    /\ cache_owner' = cid[t]
    /\ foreign_fill' = FALSE
    /\ IF todo[t] = {}
       THEN /\ cache' = EmptyDict
            /\ cache_ts' = now[t]
            /\ ts_owner' = cid[t]
            /\ Return(t, "refetch", EmptyDict)
            /\ UNCHANGED todo
       ELSE \E k \in todo[t] :
            /\ cache' = DictPut(EmptyDict, k, items[t][k])
            /\ todo' = [todo EXCEPT ![t] = @ \ {k}]
            /\ pc' = [pc EXCEPT ![t] = AfterItem(t, k)]
            /\ UNCHANGED << cache_ts, ts_owner, ret, branch, resp, today, now,
                            items, cid, calendar_cache >>
    /\ UNCHANGED << store, hist, clock, calls, budget, op, req, next_status, op_failed, scans,
                    fresh_due, expect_fresh >>

\* a later iteration: `_marked_days_cache[item['date']] = item['status']`
\* stores into whatever dict the global names now
GetLoop(t) ==
    /\ pc[t] = "loop"
    /\ \E k \in todo[t] :
        /\ cache' = DictPut(cache, k, items[t][k])
        /\ todo' = [todo EXCEPT ![t] = @ \ {k}]
        /\ pc' = [pc EXCEPT ![t] = AfterItem(t, k)]
    /\ foreign_fill' = (foreign_fill \/ cache_owner # cid[t])
    /\ UNCHANGED << store, hist, calendar_cache, clock, calls, budget, op, req, today, now, items, ret, branch,
                    next_status, op_failed, resp, cid, scans, cache_ts,
                    cache_owner, ts_owner, fresh_due, expect_fresh >>

\* `_cache_timestamp = current_time; return _marked_days_cache`
GetStamp(t) ==
    /\ pc[t] = "stamp"
    /\ cache_ts' = now[t]
    /\ ts_owner' = cid[t]
    /\ Return(t, "refetch", cache)
    /\ UNCHANGED << store, hist, clock, calls, budget, op, req, todo, next_status, op_failed,
                    scans, cache, cache_owner, foreign_fill, fresh_due,
                    expect_fresh >>

-----------------------------------------------------------------------------
(* toggle_day (src/app.py 232-289) and invalidate_cache (226-230) *)

\* data.get('current_status', 'unmarked')
current_status(data) == DictGet(data, "current_status", "unmarked")

\* (the else branch leaving the day unmarked)
NextStatusNoDefault(cur) ==
    IF cur = "unmarked" THEN "successful"
    ELSE IF cur = "successful" THEN "unsuccessful"
    ELSE "unmarked"

\* the if / elif chain deciding next_status
NextStatus(cur) ==
    IF cur = "unmarked" THEN "successful"
    ELSE IF cur = "successful" THEN "unsuccessful"
    ELSE IF cur = "unsuccessful" THEN "unmarked"
    ELSE "successful"

\* `if not date_str`: data.get('date') is None or the empty string
DateMissing(data) == "date" \notin DOMAIN data \/ data["date"] = << >>

\* (the format check left out)
DateRejectedNoFormat(data) == DateMissing(data)

\* the request is answered 400 before the table is touched
DateRejected(data) == DateMissing(data) \/ ~ strptime_ok(data["date"])

\* POST /api/toggle-day up to the table call: read the body, validate the
\* date, decide next_status
ToggleStart(t, data) ==
    /\ Free(t)
    /\ Begin(t, "toggle_day")
    /\ req' = [req EXCEPT ![t] = data]
    /\ IF DateRejected(data)
       THEN /\ resp' = [resp EXCEPT ![t] = ToggleResponse(400, "-")]
            /\ next_status' = [next_status EXCEPT ![t] = "-"]
            /\ pc' = [pc EXCEPT ![t] = "done"]
       ELSE /\ resp' = [resp EXCEPT ![t] = NoResponse]
            /\ next_status' = [next_status EXCEPT ![t] =
                                   NextStatus(current_status(data))]
            /\ pc' = [pc EXCEPT ![t] = "t_store"]
    /\ expect_fresh' = [expect_fresh EXCEPT ![t] = FALSE]
    /\ UNCHANGED << store, hist, calendar_cache, clock, today, now, scans, cacheVars, fresh_due >>

\* (put_item for every status, unmarked included)
ToggleWriteAlwaysPut(tbl, date_str, status) == DictPut(tbl, date_str, status)

\* the table after toggle_day's delete_item / put_item
ToggleWrite(tbl, date_str, status) ==
    IF status = "unmarked" THEN DictDel(tbl, date_str)
    ELSE DictPut(tbl, date_str, status)

\* the table call succeeds
ToggleStore(t) ==
    /\ pc[t] = "t_store"
    /\ store' = ToggleWrite(store, req[t]["date"], next_status[t])
    /\ hist' = hist \cup {<<store', clock>>}
    /\ pc' = [pc EXCEPT ![t] = "t_inval"]
    /\ fresh_due' = FALSE
    /\ expect_fresh' = [u \in Threads |-> FALSE]
    /\ UNCHANGED << calendar_cache, clock, calls, budget, op, getLocals, toggleLocals, resp, cid, scans,
                    cacheVars >>

\* the inner try/except encloses delete_item only: a failure of the table
\* call is caught and ignored exactly when the transition is into unmarked
FailureSwallowedAlways(status) == TRUE
FailureSwallowed(status) == status = "unmarked"

\* the table call raises: delete_item's error is printed and the handler
\* continues; put_item's error reaches the outer except, which answers 500
ToggleStoreFail(t) ==
    /\ pc[t] = "t_store"
    /\ op_failed' = [op_failed EXCEPT ![t] = TRUE]
    /\ IF FailureSwallowed(next_status[t])
       THEN /\ pc' = [pc EXCEPT ![t] = "t_inval"]
            /\ UNCHANGED resp
       ELSE /\ pc' = [pc EXCEPT ![t] = "done"]
            /\ resp' = [resp EXCEPT ![t] = ToggleResponse(500, "-")]
    /\ UNCHANGED << store, hist, calendar_cache, clock, calls, budget, op, getLocals, req, next_status, cid,
                    scans, cacheVars, fresh_due, expect_fresh >>

\* (the timestamp left as it was)
TimestampKept(ts) == ts

\* invalidate_cache(): the values it leaves in the two globals
InvalidatedCache == EmptyDict
InvalidatedTimestamp(ts) == 0

\* invalidate_cache() and the success response
ToggleInvalidate(t) ==
    /\ pc[t] = "t_inval"
    /\ cache' = InvalidatedCache
    /\ cache_ts' = InvalidatedTimestamp(cache_ts)
    /\ cache_owner' = 0
    /\ ts_owner' = 0
    /\ foreign_fill' = FALSE
    /\ resp' = [resp EXCEPT ![t] = ToggleResponse(200, next_status[t])]
    /\ pc' = [pc EXCEPT ![t] = "done"]
    /\ fresh_due' = (IF op_failed[t] THEN fresh_due ELSE TRUE)
    /\ UNCHANGED << store, hist, calendar_cache, clock, calls, budget, op, getLocals, toggleLocals, cid, scans,
                    expect_fresh >>

-----------------------------------------------------------------------------
(* cli.py: main's mark command and mark_day (src/cli.py 43-69, 177-188)     *)

\* the table after mark_day's delete_item / put_item
CliWrite(tbl, target_date, status) ==
    IF status = "unset" THEN DictDel(tbl, target_date)
    ELSE DictPut(tbl, target_date, status)

\* `cli.py mark d s` run to completion in its own process: a malformed date
\* exits before mark_day; the table call succeeds and writes
CliMark(d, s) ==
    /\ calls < budget
    /\ calls' = calls + 1
    /\ UNCHANGED budget
    /\ IF strptime_ok(d)
       THEN /\ store' = CliWrite(store, d, s)
            /\ hist' = hist \cup {<<store', clock>>}
            /\ fresh_due' = FALSE
            /\ expect_fresh' = [u \in Threads |-> FALSE]
       ELSE UNCHANGED << store, hist, fresh_due, expect_fresh >>
    /\ UNCHANGED << calendar_cache, clock, pc, op, getLocals, toggleLocals, resp, cid, scans,
                    cacheVars >>

\* the same with the table call raising: mark_day returns False, exit 1
CliMarkFail(d, s) ==
    /\ calls < budget
    /\ strptime_ok(d)
    /\ calls' = calls + 1
    /\ UNCHANGED budget
    /\ UNCHANGED << store, hist, calendar_cache, clock, pc, op, getLocals, toggleLocals, resp, cid,
                    scans, cacheVars, fresh_due, expect_fresh >>

-----------------------------------------------------------------------------
(* Time passes *)

Tick ==
    /\ clock < ClockStart + MaxTicks * TickStep
    /\ clock' = clock + TickStep
    /\ hist' = hist \cup {<<store, clock'>>}
    /\ UNCHANGED << store, calendar_cache, calls, budget, pc, op, getLocals, toggleLocals, resp, cid,
                    scans, cacheVars, fresh_due, expect_fresh >>

-----------------------------------------------------------------------------

Next ==
    \/ \E t \in Threads : \E td \in Todays : GetStreakStart(t, td)
    \/ \E t \in Threads : GetMarkedDaysStart(t)
    \/ \E t \in Threads : GetCheck(t)
    \/ \E t \in Threads : GetScan(t)
    \/ \E t \in Threads : GetScanFail(t)
    \/ \E t \in Threads : GetFill(t)
    \/ \E t \in Threads : GetLoop(t)
    \/ \E t \in Threads : GetStamp(t)
    \/ \E t \in Threads : \E data \in Requests : ToggleStart(t, data)
    \/ \E t \in Threads : ToggleStore(t)
    \/ \E t \in Threads : ToggleStoreFail(t)
    \/ \E t \in Threads : ToggleInvalidate(t)
    \/ \E d \in CliDates : \E s \in CliStatuses : CliMark(d, s)
    \/ \E d \in CliDates : \E s \in CliStatuses : CliMarkFail(d, s)
    \/ Tick

Spec == Init /\ [][Next]_vars

\* the web process serving reads only: no toggle_day, no CLI run
NextGets ==
    \/ \E t \in Threads : \E td \in Todays : GetStreakStart(t, td)
    \/ \E t \in Threads : GetMarkedDaysStart(t)
    \/ \E t \in Threads : GetCheck(t)
    \/ \E t \in Threads : GetScan(t)
    \/ \E t \in Threads : GetScanFail(t)
    \/ \E t \in Threads : GetFill(t)
    \/ \E t \in Threads : GetLoop(t)
    \/ \E t \in Threads : GetStamp(t)
    \/ Tick

SpecGets == Init /\ [][NextGets]_vars

\* GET /api/marked-days racing POST /api/toggle-day with the table reachable,
\* with room for one more invocation: a get in flight, a toggle_day, and the
\* get that follows it
NextRace ==
    \/ \E t \in Threads : GetMarkedDaysStart(t)
    \/ \E t \in Threads : GetCheck(t)
    \/ \E t \in Threads : GetScan(t)
    \/ \E t \in Threads : GetFill(t)
    \/ \E t \in Threads : GetLoop(t)
    \/ \E t \in Threads : GetStamp(t)
    \/ \E t \in Threads : \E data \in Requests : ToggleStart(t, data)
    \/ \E t \in Threads : ToggleStore(t)
    \/ \E t \in Threads : ToggleInvalidate(t)
    \/ Tick

SpecRace == InitWith(MaxCalls + 1) /\ [][NextRace]_vars

\* get_streak over a table some earlier request has cached: the table is any
\* of Snapshots, the cache holds it with a capture time of now, and one
\* request for any of DeriveTodays follows (an empty table is never served
\* from the cache and is scanned for again)
InitDerive ==
    /\ store \in Snapshots
    /\ cache = store
    /\ cache_ts = ClockStart
    /\ clock = ClockStart
    /\ calls = 1
    /\ budget = calls + 1
    /\ pc = [t \in Threads |-> "idle"]
    /\ op = [t \in Threads |-> "-"]
    /\ req = [t \in Threads |-> EmptyDict]
    /\ today = [t \in Threads |-> START_DATE]
    /\ now = [t \in Threads |-> 0]
    /\ items = [t \in Threads |-> EmptyDict]
    /\ todo = [t \in Threads |-> {}]
    /\ ret = [t \in Threads |-> EmptyDict]
    /\ branch = [t \in Threads |-> "-"]
    /\ next_status = [t \in Threads |-> "-"]
    /\ op_failed = [t \in Threads |-> FALSE]
    /\ resp = [t \in Threads |-> NoResponse]
    /\ cid = [t \in Threads |-> 0]
    /\ calendar_cache = EmptyDict
    /\ hist = {<<store, ClockStart>>}
    /\ scans = {store}
    /\ cache_owner = 1
    /\ foreign_fill = FALSE
    /\ ts_owner = 1
    /\ fresh_due = FALSE
    /\ expect_fresh = [t \in Threads |-> FALSE]

NextDerive ==
    \/ \E t \in Threads : \E td \in DeriveTodays : GetStreakStart(t, td)
    \/ \E t \in Threads : GetCheck(t)
    \/ \E t \in Threads : GetScan(t)
    \/ \E t \in Threads : GetFill(t)

SpecDerive == InitDerive /\ [][NextDerive]_vars

\* the status the page shows for a date, which it sends as current_status
ActualStatus(tbl, date_str) == DictGet(tbl, date_str, "unmarked")

\* the toggle cycle: successive toggle_day requests for "2025-08-27", each
\* sent when the previous one has been answered and carrying the date's
\* status in the table, starting from a table with no record of that date
InitToggles == InitWith(MaxToggles) /\ K2 \notin DOMAIN store

NextToggles ==
    \/ \E t \in Threads :
          /\ \A u \in Threads : pc[u] \in {"idle", "done"}
          /\ ToggleStart(t, [date |-> K2,
                             current_status |-> ActualStatus(store, K2)])
    \/ \E t \in Threads : ToggleStore(t)
    \/ \E t \in Threads : ToggleInvalidate(t)
    \/ Tick

SpecToggles == InitToggles /\ [][NextToggles]_vars

\* the writers alone: toggle_day requests and CLI runs, interleaved, whose
\* dates are "2025-08-27" written with and without zero padding (strptime
\* accepts both) and "2025-13-01"
WriteRequests ==
    { [date |-> d, current_status |-> s] :
          d \in {K2, UnpaddedKey}, s \in {"unmarked", "successful", "unsuccessful"} }
    \cup { [date |-> BadDate, current_status |-> "unmarked"] }

WriteCliDates == {K2, UnpaddedKey, BadDate}

NextWrites ==
    \/ \E t \in Threads : \E data \in WriteRequests : ToggleStart(t, data)
    \/ \E t \in Threads : ToggleStore(t)
    \/ \E t \in Threads : ToggleStoreFail(t)
    \/ \E t \in Threads : ToggleInvalidate(t)
    \/ \E d \in WriteCliDates : \E s \in CliStatuses : CliMark(d, s)
    \/ \E d \in WriteCliDates : \E s \in CliStatuses : CliMarkFail(d, s)

SpecWrites == Init /\ [][NextWrites]_vars

-----------------------------------------------------------------------------
(* Properties *)

Gets == {"get_streak", "get_marked_days"}

\* every value current_time can take in a behaviour
Clocks == { ClockStart + i * TickStep : i \in 0..MaxTicks }

\* thread t has finished a get whose get_cached_marked_days returned a
\* snapshot (cache hit or refetch), not the except branch's value
ReturnedSnapshot(t) ==
    pc[t] = "done" /\ op[t] \in Gets /\ branch[t] \in {"hit", "refetch"}

\* no thread is between its first store into the cache and its timestamp
Quiescent == \A t \in Threads : pc[t] \notin {"loop", "stamp"}

\* a snapshot captured by one call is stored, and no refetch is under way
StoredSnapshot ==
    /\ ts_owner # 0
    /\ cache_owner = ts_owner
    /\ ~ foreign_fill
    /\ Quiescent

\* C1: invalidate wins against an in-flight refetch: the first get started
\* after a toggle_day wrote the table and invalidated the cache, with no
\* later write and the table reachable, returns the table's contents.
C1_InvalidateWins ==
    \A t \in Threads :
        (ReturnedSnapshot(t) /\ expect_fresh[t]) => ret[t] = store

\* C2: readers never observe a partially-written snapshot: every dict a get
\* returns from the hit or the refetch branch is the complete result of one
\* table scan.
C2_NoPartialSnapshot ==
    \A t \in Threads : ReturnedSnapshot(t) => ret[t] \in scans

\* C3: when toggle_day answers with its success response (after an upsert,
\* a delete, or a delete that raised), the cache is empty and the timestamp
\* is 0, so no value of the clock makes the validity test pass.
C3_ToggleInvalidates ==
    [][ \A t \in Threads :
          ( /\ op[t] = "toggle_day"
            /\ pc[t] # "done"
            /\ pc'[t] = "done"
            /\ resp'[t].code = 200 )
          => /\ cache' = EmptyDict
             /\ cache_ts' = 0
             /\ \A c \in Clocks : ~ CacheValid(c, cache_ts', cache') ]_vars

\* a toggle_day whose delete_item raised has answered 200 over an emptied
\* cache, after some get had filled the cache
C3_Witness ==
    \E t \in Threads :
        /\ pc[t] = "done" /\ op[t] = "toggle_day" /\ resp[t].code = 200
        /\ op_failed[t]
        /\ scans # {}
        /\ cache = EmptyDict /\ cache_ts = 0

\* thread t is about to run the validity test of a call that came after the
\* call that captured the stored snapshot, less than the TTL after that
\* capture, with no invalidate_cache since
WithinTTLOfCapture(t) ==
    /\ pc[t] = "check"
    /\ ts_owner # 0
    /\ cid[t] > ts_owner
    /\ now[t] - cache_ts < _cache_ttl

\* the step is a cache hit of thread t: it returns the stored dict, leaves
\* the capture time alone and scans nothing
HitStep(t) ==
    /\ pc'[t] = "done"
    /\ branch'[t] = "hit"
    /\ ret'[t] = cache
    /\ cache' = cache
    /\ cache_ts' = cache_ts
    /\ scans' = scans

\* C4 as stated: a second get made less than the TTL after the capture of
\* the stored snapshot (empty or not), with no invalidate_cache in between,
\* returns that snapshot and capture time and performs no scan.
C4_HitWithinTTL ==
    [][ \A t \in Threads :
          (WithinTTLOfCapture(t) /\ pc'[t] # "check") => HitStep(t) ]_vars

\* C4, amended: the same for a stored snapshot that holds at least one
\* record; a captured snapshot of an empty table is scanned for again.
C4_HitWithinTTLNonEmpty ==
    [][ \A t \in Threads :
          (WithinTTLOfCapture(t) /\ pc'[t] # "check")
          => IF cache # EmptyDict THEN HitStep(t) ELSE pc'[t] = "scan" ]_vars

\* a get has been served the stored two-record snapshot from the cache
C4_Witness ==
    \E t \in Threads :
        /\ pc[t] = "done" /\ op[t] \in Gets /\ branch[t] = "hit"
        /\ StoredSnapshot
        /\ DOMAIN ret[t] = StoreKeys /\ ret[t] = cache

Max0(n) == IF n > 0 THEN n ELSE 0

C7_ConsistentPair ==
    (Quiescent /\ cache_ts # 0)
    => (cache_owner = ts_owner /\ ~ foreign_fill)

\* C8: next_status follows the table unmarked -> successful,
\* successful -> unsuccessful, unsuccessful -> unmarked, anything else ->
\* successful, a missing current_status counting as unmarked; the success
\* response names that status.
C8_TransitionTable ==
    \A t \in Threads :
        ( /\ op[t] = "toggle_day"
          /\ \/ pc[t] \in {"t_store", "t_inval"}
             \/ (pc[t] = "done" /\ resp[t].code # 400) )
        => LET given == IF "current_status" \in DOMAIN req[t]
                        THEN req[t]["current_status"] ELSE "unmarked"
               expected == CASE given = "unmarked" -> "successful"
                             [] given = "successful" -> "unsuccessful"
                             [] given = "unsuccessful" -> "unmarked"
                             [] OTHER -> "successful"
           IN  /\ next_status[t] = expected
               /\ (pc[t] = "done" /\ resp[t].code = 200)
                      => resp[t].status = expected

\* one toggle_day in flight was given an unknown current_status and one was
\* given none; both go to successful
C8_Witness ==
    \E t, u \in Threads :
        /\ op[t] = "toggle_day" /\ op[u] = "toggle_day"
        /\ pc[t] = "t_inval"
        /\ "current_status" \in DOMAIN req[t]
        /\ req[t]["current_status"] = "bogus"
        /\ next_status[t] = "successful"
        /\ pc[u] = "t_store"
        /\ "current_status" \notin DOMAIN req[u]
        /\ next_status[u] = "successful"

\* the date of a body is missing, empty or no YYYY-MM-DD calendar date
Malformed(data) ==
    \/ "date" \notin DOMAIN data
    \/ data["date"] = << >>
    \/ ~ strptime_ok(data["date"])

\* C9: a toggle_day whose date is missing or does not parse is answered 400
\* by the step that receives it, and that step leaves the table, the cached
\* dict and the capture time as they were.
C9_RejectChangesNothing ==
    [][ \A t \in Threads :
          ( /\ calls' = calls + 1
            /\ cid'[t] = calls'
            /\ op'[t] = "toggle_day"
            /\ Malformed(req'[t]) )
          => /\ pc'[t] = "done"
             /\ resp'[t].code = 400
             /\ store' = store
             /\ cache' = cache
             /\ cache_ts' = cache_ts ]_vars

\* a toggle_day for "2025-13-01" was answered 400 over a filled cache and a
\* table with records
C9_Witness ==
    \E t \in Threads :
        /\ pc[t] = "done" /\ op[t] = "toggle_day"
        /\ "date" \in DOMAIN req[t] /\ req[t]["date"] = BadDate
        /\ resp[t].code = 400
        /\ cache # EmptyDict /\ cache_ts # 0 /\ store # EmptyDict

\* C10 as stated: whenever the table call of a toggle_day fails, the
\* handler does not answer with its success response.
C10_WriteFailurePropagates ==
    \A t \in Threads :
        (pc[t] = "done" /\ op[t] = "toggle_day" /\ op_failed[t])
        => resp[t].code # 200

\* C10, amended: a failing put_item is answered 500 and names no status; a
\* failing delete_item is caught and the handler goes on to invalidate and
\* to answer 200 naming unmarked.
C10_PutFailurePropagates ==
    \A t \in Threads :
        (op[t] = "toggle_day" /\ op_failed[t])
        => IF next_status[t] = "unmarked"
           THEN \/ pc[t] = "t_inval"
                \/ /\ pc[t] = "done"
                   /\ resp[t].code = 200
                   /\ resp[t].status = "unmarked"
           ELSE /\ pc[t] = "done"
                /\ resp[t].code = 500
                /\ resp[t].status = "-"

\* a put_item failed and the handler answered 500
C10_Witness ==
    \E t \in Threads :
        /\ pc[t] = "done" /\ op[t] = "toggle_day" /\ op_failed[t]
        /\ next_status[t] = "successful"
        /\ resp[t].code = 500

-----------------------------------------------------------------------------
(* The derivation, against a description of its result that does not walk   *)
(* the days the way the code does.  Day i is START_DATE + i days; the        *)
(* status of a day in a dict is the value stored under the day's            *)
(* '%Y-%m-%d' string, unmarked when there is none.                          *)

DateAt(i) == AddDays(START_DATE, i)

Classify(S, i) ==
    IF strftime(DateAt(i)) \in DOMAIN S THEN S[strftime(DateAt(i))]
    ELSE "unmarked"

SetMax(X) == CHOOSE x \in X : \A y \in X : y <= x

\* thread t has answered a GET /api/streak
Derived(t) == pc[t] = "done" /\ op[t] = "get_streak" /\ resp[t].code = 200

\* the successful days m of 0..n with no unsuccessful day in (m, n]
RefAnchors(S, n) ==
    { m \in 0..n : /\ Classify(S, m) = "successful"
                   /\ \A u \in (m + 1)..n : Classify(S, u) # "unsuccessful" }

\* length of the maximal run of successful days that ends at day m and does
\* not reach before day 0
RefRun(S, m) ==
    Cardinality({ k \in 0..m : \A j \in k..m : Classify(S, j) = "successful" })

RefStreak(S, n) ==
    IF n < 0 \/ RefAnchors(S, n) = {} THEN 0
    ELSE RefRun(S, SetMax(RefAnchors(S, n)))

\* C11: the current_streak get_streak reports equals the reference value:
\* with m the latest successful day of [START_DATE, today] that no
\* unsuccessful day follows up to today, 0 when there is no such m, else the
\* length of the maximal run of consecutive successful days ending at m
\* inside [START_DATE, m].
C11_StreakIsReference ==
    \A t \in Threads :
        Derived(t)
        => resp[t].current_streak = RefStreak(ret[t], resp[t].days_since_start)

\* 2025-08-26 .. 2025-08-29 successful, 2025-08-30 unsuccessful, asked on
\* 2025-08-29: the streak is 4
C11_Witness ==
    \E t \in Threads :
        /\ Derived(t)
        /\ resp[t].today = <<2025, 8, 29, 1>>
        /\ HasStatus(ret[t], <<2025, 8, 30, 1>>, "unsuccessful")
        /\ resp[t].current_streak = 4

\* C12 as stated: for every dict and every today,
\* 0 <= current_streak <= (today - START_DATE).days + 1.
C12_StreakBounds ==
    \A t \in Threads :
        Derived(t)
        => /\ resp[t].current_streak >= 0
           /\ resp[t].current_streak <= resp[t].days_since_start + 1

\* C12, amended: 0 <= current_streak <= max(0, (today - START_DATE).days + 1);
\* for a today more than one day before START_DATE the upper bound of the
\* claim is negative and the streak is 0.
C12_StreakBoundsFromEpoch ==
    \A t \in Threads :
        Derived(t)
        => /\ resp[t].current_streak >= 0
           /\ resp[t].current_streak <= Max0(resp[t].days_since_start + 1)

\* every day from START_DATE to today successful, and a successful record
\* on the day before START_DATE: the streak reaches the bound and stops there
C12_Witness ==
    \E t \in Threads :
        /\ Derived(t)
        /\ resp[t].days_since_start = 4
        /\ resp[t].current_streak = 5
        /\ HasStatus(ret[t], strftime(PrevDay(START_DATE)), "successful")

\* C13: when some unsuccessful day of [START_DATE, today] has no successful
\* day after it up to today, current_streak is 0, whatever precedes it.
C13_FailureBreaksStreak ==
    \A t \in Threads :
        ( /\ Derived(t)
          /\ \E u \in 0..resp[t].days_since_start :
                /\ Classify(ret[t], u) = "unsuccessful"
                /\ \A j \in (u + 1)..resp[t].days_since_start :
                      Classify(ret[t], j) # "successful" )
        => resp[t].current_streak = 0

\* four successful days, then an unsuccessful today: the streak is 0
C13_Witness ==
    \E t \in Threads :
        /\ Derived(t)
        /\ resp[t].today = <<2025, 8, 30, 1>>
        /\ HasStatus(ret[t], <<2025, 8, 30, 1>>, "unsuccessful")
        /\ \A i \in 0..3 : Classify(ret[t], i) = "successful"
        /\ resp[t].current_streak = 0

\* C17: successful_days and unsuccessful_days count the successful and the
\* unsuccessful days of [START_DATE, today] and no record outside it,
\* total_marked_days is their sum, and success_rate is 0.0 when the sum is 0.
C17_CountsInRange ==
    \A t \in Threads :
        Derived(t)
        => LET n == resp[t].days_since_start
               good == { i \in 0..n : Classify(ret[t], i) = "successful" }
               bad == { i \in 0..n : Classify(ret[t], i) = "unsuccessful" }
           IN  /\ resp[t].successful_days = Cardinality(good)
               /\ resp[t].unsuccessful_days = Cardinality(bad)
               /\ resp[t].total_marked_days
                      = Cardinality(good) + Cardinality(bad)
               /\ (good \cup bad = {}) => resp[t].success_rate = 0

\* records on the day before START_DATE and after today only: nothing is
\* counted and the rate is 0.0
C17_Witness ==
    \E t \in Threads :
        /\ Derived(t)
        /\ resp[t].today = <<2025, 8, 27, 1>>
        /\ HasStatus(ret[t], strftime(PrevDay(START_DATE)), "successful")
        /\ HasStatus(ret[t], <<2025, 8, 29, 1>>, "successful")
        /\ resp[t].successful_days = 0
        /\ resp[t].total_marked_days = 0
        /\ resp[t].success_rate = 0

\* C19: when every day after the latest successful day m of
\* [START_DATE, today] is unmarked up to today, the current_streak reported
\* for today is the one the derivation gives for today = m.
C19_GapKeepsStreak ==
    \A t \in Threads :
        Derived(t)
        => LET n == resp[t].days_since_start
               good == { i \in 0..n : Classify(ret[t], i) = "successful" }
           IN  ( /\ good # {}
                 /\ \A j \in (SetMax(good) + 1)..n :
                       Classify(ret[t], j) = "unmarked" )
               => resp[t].current_streak
                      = current_streak(ret[t], DateAt(SetMax(good)))

\* successful on 2025-08-27 and 2025-08-28, nothing after, asked on
\* 2025-08-31: the streak is still 2
C19_Witness ==
    \E t \in Threads :
        /\ Derived(t)
        /\ resp[t].today = <<2025, 8, 31, 1>>
        /\ Classify(ret[t], 1) = "successful"
        /\ Classify(ret[t], 2) = "successful"
        /\ \A j \in 3..5 : Classify(ret[t], j) = "unmarked"
        /\ Classify(ret[t], 0) = "unmarked"
        /\ resp[t].current_streak = 2

-----------------------------------------------------------------------------
(* The calendar pages *)

\* months since year 0 of a date or of a date string
MonthIndex(d) == d[1] * 12 + d[2] - 1

\* pages is one page per month from START_DATE's month through the month of
\* today_key and no other, newest first
PagesOfKey(pages, today_key) ==
    /\ Len(pages) = Max0(MonthIndex(today_key) - MonthIndex(START_DATE) + 1)
    /\ \A j \in 1..Len(pages) :
          /\ MonthIndex(<<pages[j].year, pages[j].month>>)
                 = MonthIndex(today_key) - j + 1
          /\ pages[j].start_date = <<pages[j].year, pages[j].month, 1>>
          /\ pages[j].end_date[1] = pages[j].year
          /\ pages[j].end_date[2] = pages[j].month

\* C14: the pages get_calendar_data holds and returns for a key are exactly
\* one page per month from START_DATE's month through the month of the
\* key's date, newest first, for every today (also one before START_DATE)
\* and also when midnight passes between get_streak reading the date and
\* get_calendar_data reading it.
C14_CalendarPages ==
    /\ \A k \in DOMAIN calendar_cache : PagesOfKey(calendar_cache[k], k)
    /\ \A t \in Threads :
          Derived(t) => PagesOfKey(resp[t].months_data, resp[t].today)

-----------------------------------------------------------------------------
(* The toggle cycle *)

\* every toggle_day request sent so far has been answered
AllAnswered == \A t \in Threads : pc[t] \in {"idle", "done"}

\* C15 as stated: starting from no record of the date, four successive
\* toggle_day calls on it, each given the date's status in the table, leave
\* the date unmarked with no record.
C15_FourTogglesUnmarked ==
    (AllAnswered /\ calls = 4) => K2 \notin DOMAIN store

\* C15, amended: the cycle has three steps.  After n such calls the date is
\* successful when n leaves 1 modulo 3, unsuccessful when it leaves 2, and
\* has no record when 3 divides n (so after three calls, not four: the
\* fourth makes it successful again).
C15_ThreeTogglesUnmarked ==
    AllAnswered
    => CASE calls % 3 = 0 -> K2 \notin DOMAIN store
         [] calls % 3 = 1 -> HasStatus(store, K2, "successful")
         [] calls % 3 = 2 -> HasStatus(store, K2, "unsuccessful")

\* three toggles answered, the third one naming unmarked, and the record gone
C15_Witness ==
    /\ AllAnswered
    /\ calls = 3
    /\ K2 \notin DOMAIN store
    /\ \E t \in Threads :
          /\ op[t] = "toggle_day" /\ resp[t].code = 200
          /\ resp[t].status = "unmarked"
          /\ req[t]["current_status"] = "unsuccessful"

-----------------------------------------------------------------------------
(* The table *)

\* C16: whatever toggle_day calls and CLI mark runs have happened, the table
\* holds at most one record per calendar date (the date a record's key
\* parses to), and every record's status is successful or unsuccessful.
C16_OneRecordPerDate ==
    /\ \A j, k \in DOMAIN store : strptime(j) = strptime(k) => j = k
    /\ \A k \in DOMAIN store : store[k] \in {"successful", "unsuccessful"}

-----------------------------------------------------------------------------
(* Staleness, and the cache after a failed scan *)

\* C18: every dict get_cached_marked_days returns from the hit or the
\* refetch branch equals the table's contents at some instant no more than
\* the TTL before the return, whoever writes the table (toggle_day, the CLI)
\* and however refetches interleave.
C18_StalenessBound ==
    [][ \A t \in Threads :
          ( /\ pc[t] # "done"
            /\ pc'[t] = "done"
            /\ op'[t] \in Gets
            /\ branch'[t] \in {"hit", "refetch"} )
          => \E h \in hist' :
                /\ h[1] = ret'[t]
                /\ h[2] <= clock'
                /\ clock' - h[2] <= _cache_ttl ]_vars

\* C20: the steps of a get_cached_marked_days call whose scan fails (reading
\* the clock, the validity test, the failing scan) leave the cached dict and
\* the capture time as they were, so the validity test of a following call
\* has the same outcome at every clock value.
C20_FailedScanLeavesCache ==
    [][ \A t \in Threads :
          ( \/ (pc[t] \in {"idle", "done"} /\ pc'[t] = "check")
            \/ (pc[t] = "check" /\ pc'[t] = "scan")
            \/ (pc[t] = "scan" /\ pc'[t] = "done") )
          => /\ cache' = cache
             /\ cache_ts' = cache_ts
             /\ \A c \in Clocks :
                   CacheValid(c, cache_ts', cache') = CacheValid(c, cache_ts, cache)
      ]_vars

\* a get whose scan failed has returned; the cache still holds the records
\* and the capture time an earlier get stored, now past their TTL
C20_Witness ==
    \E t \in Threads :
        /\ pc[t] = "done" /\ op[t] \in Gets /\ branch[t] = "fallback"
        /\ cache # EmptyDict
        /\ cache_ts = ClockStart
        /\ clock = ClockStart + TickStep
        /\ ~ CacheValid(clock, cache_ts, cache)

====
